---- MODULE Spec2Model ----
(***************************************************************************)
(* Model of the cloud synchronisation engine of                            *)
(* nvr-system/services/cloud_sync.py: SyncTask, BandwidthMonitor and       *)
(* CloudSyncService (queue, scheduler loop, transfer executor, multipart   *)
(* upload, result handling with retry threads, force sync).                *)
(*                                                                         *)
(* Sizes are bytes, times are whole seconds.  A destination key            *)
(* "a/b/c" is the sequence of its segments <<"a", "b", "c">>.  A local     *)
(* path is the record [dir, stem, ext]; Path(p).name is <<stem, ext>>.     *)
(* Not modelled: logging, the metadata side-car (every failure of loading  *)
(* it is caught at lines 291-292 and it decides no branch), and the float  *)
(* metric total_upload_time.                                               *)
(***************************************************************************)
EXTENDS Integers, Sequences, FiniteSets, TLC

(***************************************************************************)
(* Bounds of the model.                                                    *)
(***************************************************************************)
\* SyncTask objects constructed in one run (enqueues plus force syncs).
MaxTasks == 2
\* The same, in the specification of the queue alone.
MaxQueueTasks == 3
\* Last second of the clock.
MaxTime == 70
\* SyncTask objects constructed in the specification of start and stop.
MaxLifeTasks == 2
\* tasks and the largest retry_attempts in the check of the backoff
MaxBackoffTasks == 1
MaxRetryAttempts == 10
\* SyncTask objects constructed in the specification of the throttle.
MaxMonitorTasks == 2
\* SyncTask objects constructed in the specification of the status query.
MaxStatusTasks == 2
\* SyncTask objects constructed in the specification of stop.
MaxStopTasks == 2
\* SyncTask objects constructed in the specification of progress.
MaxProgressTasks == 2

(***************************************************************************)
(* Program constants.                                                      *)
(***************************************************************************)
\* config.sync of config/nvr_config.py, which is not among the sources:
\* retry_attempts is the documented default, max_bandwidth_mbps the default
\* of BandwidthMonitor.__init__.
DefaultConfig == [retry_attempts |-> 3, max_bandwidth_mbps |-> 10]
\* The same with a single retry.
OneRetryConfig == [DefaultConfig EXCEPT !.retry_attempts = 1]
\* The same with no retry: a failed task is dropped at once.
NoRetryConfig == [DefaultConfig EXCEPT !.retry_attempts = 0]
\* every retry_attempts up to MaxRetryAttempts
BackoffConfigs ==
    {[DefaultConfig EXCEPT !.retry_attempts = n] : n \in 0..MaxRetryAttempts}
\* BandwidthMonitor.history_window
history_window == 60
\* "if file_size > 100 * 1024 * 1024" in _sync_file
multipart_threshold == 100 * 1024 * 1024
\* "part_size = 100 * 1024 * 1024" in _multipart_upload
part_size == 100 * 1024 * 1024
\* "delay = min(2 ** retry_count, 300)"
max_backoff == 300
\* priority = 3 in force_sync_file
force_priority == 3
\* "priority = max(priority, 2)" in queue_file_for_sync
motion_priority == 2

Min(a, b) == IF a < b THEN a ELSE b
Max(a, b) == IF a > b THEN a ELSE b

RECURSIVE Pow2(_)
Pow2(n) == IF n = 0 THEN 1 ELSE 2 * Pow2(n - 1)

\* The float quantities of BandwidthMonitor are kept as exact fractions
\* <<numerator, denominator>> in lowest terms (the operands are whole bytes
\* and whole seconds, far from the resolution of a double).
gcd[a \in Nat, b \in Nat] == IF b = 0 THEN a ELSE gcd[b, a % b]

GCD(a, b) == gcd[a, b]

Frac(n, d) == LET g == GCD(n, d) IN <<n \div g, d \div g>>

FracLeq(x, y) == x[1] * y[2] <= y[1] * x[2]

FracLess(x, y) == x[1] * y[2] < y[1] * x[2]

(***************************************************************************)
(* Inputs.                                                                 *)
(***************************************************************************)
PathA == [dir |-> "rec", stem |-> "a", ext |-> "mp4"]
PathB == [dir |-> "rec", stem |-> "a", ext |-> "avi"]
Paths == {PathA, PathB}
Sites == {"s1"}
Cameras == {"c1"}
Priorities == {1, 2, 3}
\* The calendar days the clock of the model passes through, as strftime
\* gives them: <<%Y, %m, %d>>.
Dates == << <<"2024", "12", "31">>, <<"2025", "01", "01">> >>
\* The source of the main specification and its size; the source of the
\* transfer specification and the sizes it may have.
MainPaths == {PathA}
MainSizes == [p \in MainPaths |-> 4 * 1024]
TransferPaths == {PathB}
TransferSizes ==
    {0, 1, 100 * 1024 * 1024, 100 * 1024 * 1024 + 1, 200 * 1024 * 1024,
     250 * 1024 * 1024, 300 * 1024 * 1024}
\* The sources of the specification of the throttle: at the default
\* 10 Mbit/s (1310720 bytes/s) one upload of either is over the budget for
\* some seconds.
MonitorPaths == {PathA, PathB}
MonitorSizes ==
    [p \in MonitorPaths |-> IF p = PathA THEN 8 * 1024 * 1024
                            ELSE 4 * 1024 * 1024]
\* A source whose upload keeps the usage over the budget until its sample
\* leaves the window (80 MiB in 60 s is more than 10 Mbit/s).
ProgressPaths == {PathA}
ProgressSizes == [p \in ProgressPaths |-> 80 * 1024 * 1024]
\* The instants (seconds) at which the threads read the clock: the first
\* seconds, in which a fresh sample is over the budget, and the seconds
\* around the end of the window of a sample of second 0 or 1.
Instants == {0, 1, 2, 3, 4, 6, 7, 60, 61}

\* Thread slots: scheduler-loop threads, force_sync_file callers.
Workers == {"w1", "w2"}
Forcers == {"f1"}
\* The slots the main specification starts a scheduler loop in.
MainWorkers == {"w1"}
Execs == Workers \cup Forcers
\* The threads that call start().
Starters == {"c1", "c2"}

VARIABLES
    config,             \* config.sync: retry_attempts, max_bandwidth_mbps
    files,              \* local paths that exist (sources and markers)
    fsize,              \* st_size of every source path
    s3,                 \* destination keys that hold a committed object
    today,              \* index in Dates of the current UTC day
    now,                \* time.time(), seconds
    tasks,              \* the SyncTask objects constructed so far; a task is
                        \* named by its index
    sync_queue,         \* CloudSyncService.sync_queue: task ids
    queue_lock,         \* holder of queue_lock, or "free"
    running,            \* CloudSyncService.running
    stats,              \* total/successful/failed uploads, total bytes
    upload_history,     \* BandwidthMonitor.upload_history: <<t, bytes>>
    pc,                 \* position of every worker, force-sync caller and
                        \* caller of start()
    cur,                \* the task each of them is executing (0: none)
    loc,                \* locals of _sync_file/_multipart_upload per thread
    prod,               \* the producer in queue_file_for_sync: its position
                        \* and, while it is in the call, its arguments
    retry,              \* the retry thread of each task
    hist,               \* history of each task (observation only)
    dequeueLog,         \* tasks dequeued since the last insertion
                        \* (observation only)
    arrival,            \* the tasks inserted so far, in the order of their
                        \* latest insertion (observation only)
    forceRet,           \* what force_sync_file last returned to each caller
    monitor_lock,       \* holder of BandwidthMonitor.lock, or "free"
    query,              \* the caller of get_statistics: its position and
                        \* the counters it has read
    stopDequeues        \* per scheduler-loop thread, the tasks it dequeued
                        \* since running was last cleared (observation only)

vars == <<config, files, fsize, s3, today, now, tasks, sync_queue, queue_lock,
          running,
          stats, upload_history, pc, cur, loc, prod, retry, hist, dequeueLog,
          arrival, forceRet, monitor_lock, query, stopDequeues>>

(***************************************************************************)
(* SyncTask and the keys.                                                  *)
(***************************************************************************)
\* Path(local_path).name
FileName(p) == <<p.stem, p.ext>>

\* Path(local_path).with_suffix(s)
WithSuffix(p, s) == [dir |-> p.dir, stem |-> p.stem, ext |-> s]

\* now.strftime("%Y/%m/%d") as path segments
DatePrefix(d) == Dates[d + 1]

\* s3_key of queue_file_for_sync
QueueKey(site, cam, d, p) == <<"cctv", site, cam>> \o DatePrefix(d) \o <<FileName(p)>>

\* s3_key of force_sync_file
ForceKey(site, cam, d, p) == <<"cctv", site, cam, FileName(p)>>

\* Mutant: the hint sets the priority to 2.
EffectivePrioritySet(priority, has_motion) ==
    IF has_motion THEN motion_priority ELSE priority

\* "if has_motion: priority = max(priority, 2)"
EffectivePriority(priority, has_motion) ==
    IF has_motion THEN Max(priority, motion_priority) ELSE priority

SyncTask(p, key, cam, site, prio) ==
    [local_path |-> p, s3_key |-> key, camera_id |-> cam, site_id |-> site,
     priority |-> prio, retry_count |-> 0, created_at |-> today]

NoHist(origin) ==
    [origin |-> origin, execs |-> 0, fails |-> 0, inserts |-> 0,
     delays |-> <<>>, missing |-> FALSE, dropped |-> FALSE, done |-> FALSE,
     \* the keys its executions have passed to the destination
     keys |-> {}]

(***************************************************************************)
(* The queue.                                                              *)
(***************************************************************************)
Prio(t) == tasks[t].priority

\* Mutant: t goes in front of the elements of its own priority.
RECURSIVE InsertBeforeEqual(_, _)
InsertBeforeEqual(s, t) ==
    IF s = <<>> THEN <<t>>
    ELSE IF Prio(Head(s)) > Prio(t) THEN <<Head(s)>> \o InsertBeforeEqual(Tail(s), t)
    ELSE <<t>> \o s

\* Place of t in a descending list: behind every element whose priority is
\* not lower than its own.
RECURSIVE InsertByPriority(_, _)
InsertByPriority(s, t) ==
    IF s = <<>> THEN <<t>>
    ELSE IF Prio(Head(s)) >= Prio(t) THEN <<Head(s)>> \o InsertByPriority(Tail(s), t)
    ELSE <<t>> \o s

\* Mutant: the sort is left out.
SortQueueOmitted(q) == q

\* Mutant: an unstable sort, a task goes in front of its equals.
RECURSIVE SortQueueUnstable(_)
SortQueueUnstable(q) ==
    IF q = <<>> THEN <<>>
    ELSE InsertBeforeEqual(SortQueueUnstable(SubSeq(q, 1, Len(q) - 1)), q[Len(q)])

\* list.sort(key = lambda t: t.priority, reverse = True): stable, equal
\* priorities keep their order.
RECURSIVE SortQueue(_)
SortQueue(q) ==
    IF q = <<>> THEN <<>>
    ELSE InsertByPriority(SortQueue(SubSeq(q, 1, Len(q) - 1)), q[Len(q)])

(***************************************************************************)
(* BandwidthMonitor.                                                       *)
(***************************************************************************)
\* self.max_bytes_per_second = max_bandwidth_mbps * 1024 * 1024 / 8
MaxBytesPerSecond(mbps) == (mbps * 1024 * 1024) \div 8

RECURSIVE SumBytes(_)
SumBytes(h) == IF h = <<>> THEN 0 ELSE Head(h)[2] + SumBytes(Tail(h))

\* [(t, b) for t, b in upload_history if t > cutoff]
Recent(h, t) == SelectSeq(h, LAMBDA e : e[1] > t - history_window)

\* Mutant: the history is never pruned.
RecordUploadNoPrune(h, t, bytes) == Append(h, <<t, bytes>>)

\* record_upload: append, then prune
RecordUpload(h, t, bytes) == Recent(Append(h, <<t, bytes>>), t)

\* get_current_bandwidth_usage() > max_bytes_per_second, with
\* usage = total_bytes / max(time_span, 1.0)
ShouldThrottle(h, t) ==
    LET recent == Recent(h, t)
    IN  /\ recent # <<>>
        /\ SumBytes(recent) > MaxBytesPerSecond(config.max_bandwidth_mbps)
                                 * Max(t - recent[1][1], 1)

\* get_current_bandwidth_usage, bytes per second:
\* 0.0 without samples in the window, else total_bytes / max(time_span, 1.0)
GetCurrentBandwidthUsage(h, t) ==
    LET recent == Recent(h, t)
    IN  IF h = <<>> \/ recent = <<>> THEN Frac(0, 1)
        ELSE Frac(SumBytes(recent), Max(t - recent[1][1], 1))

\* Mutant: the delay is not capped.
ThrottleDelayUncapped(usage) ==
    Frac(2 * usage[1], usage[2] * MaxBytesPerSecond(config.max_bandwidth_mbps))

\* "excess_ratio = current_usage / self.max_bytes_per_second;
\*  return min(excess_ratio * 2.0, 10.0)", seconds
ThrottleDelay(usage) ==
    LET d == Frac(2 * usage[1],
                  usage[2] * MaxBytesPerSecond(config.max_bandwidth_mbps))
    IN  IF FracLeq(<<10, 1>>, d) THEN <<10, 1>> ELSE d

(***************************************************************************)
(* Initial state: the service constructed, nothing started.                *)
(***************************************************************************)
NoProducer == [pc |-> "idle", priority |-> 0, has_motion |-> FALSE]

NoQuery == [pc |-> "idle", total_uploads |-> 0, successful_uploads |-> 0,
            failed_uploads |-> 0]

NoResult == [set |-> FALSE, success |-> FALSE, error |-> "", bytes |-> 0]

NoStats == [total_uploads |-> 0, successful_uploads |-> 0,
            failed_uploads |-> 0, total_bytes_uploaded |-> 0]

NoLoc ==
    [file_size |-> 0, part_number |-> 1, offset |-> 0, parts |-> <<>>,
     session |-> "none", result |-> NoResult,
     \* get_throttle_delay in the scheduler loop: whether it has returned,
     \* the usage its should_throttle read, the usage it computed the delay
     \* from (<<0, 1>> when it did not get there) and what it returned
     delayed |-> FALSE, usage1 |-> <<0, 1>>, usage2 |-> <<0, 1>>,
     delay |-> <<0, 1>>,
     \* the counters as _handle_sync_result read them
     seen |-> NoStats,
     \* observation only: whether the key held an object when the execution
     \* began, the data-transfer calls made, the calls on the session
     \* and the bytes the execution has passed to record_upload
     recorded |-> 0,
     hadObj |-> FALSE, xfer |-> 0, partFailed |-> FALSE, commits |-> 0,
     aborts |-> 0, commitAfterFail |-> FALSE, committed |-> <<>>]

\* The sources on disk, their sizes and the objects the bucket already holds
\* are the environment's.
InitWith(configs, fileSets, sizeFns, s3Sets) ==
    /\ config \in configs
    /\ files \in fileSets
    /\ fsize \in sizeFns
    /\ s3 \in s3Sets
    /\ today = 0
    /\ now = 0
    /\ tasks = <<>>
    /\ sync_queue = <<>>
    /\ queue_lock = "free"
    /\ running = FALSE
    /\ stats = NoStats
    /\ upload_history = <<>>
    /\ pc = [th \in Execs \cup Starters |->
                 IF th \in Workers THEN "dead" ELSE "idle"]
    /\ cur = [th \in Execs |-> 0]
    /\ loc = [th \in Execs |-> NoLoc]
    /\ prod = NoProducer
    /\ retry = <<>>
    /\ hist = <<>>
    /\ dequeueLog = <<>>
    /\ arrival = <<>>
    /\ forceRet = [f \in Forcers |-> "none"]
    /\ monitor_lock = "free"
    /\ query = NoQuery
    /\ stopDequeues = [w \in Workers |-> 0]

Init == InitWith({DefaultConfig}, {MainPaths}, {MainSizes}, {{}})

InitQueue == InitWith({OneRetryConfig}, {MainPaths}, {MainSizes}, {{}})

InitMonitor ==
    InitWith({NoRetryConfig}, {MonitorPaths}, {MonitorSizes}, {{}})

InitLifecycle == InitWith({OneRetryConfig}, {MainPaths}, {MainSizes}, {{}})

InitBackoff == InitWith(BackoffConfigs, {MainPaths}, {MainSizes}, {{}})

InitProgress ==
    InitWith({OneRetryConfig}, {ProgressPaths}, {ProgressSizes}, {{}})

InitStatus == InitWith({OneRetryConfig}, {MainPaths}, {MainSizes}, {{}})

InitStop == InitWith({OneRetryConfig}, {MainPaths}, {MainSizes}, {{}})

InitTransfer ==
    InitWith({DefaultConfig}, {TransferPaths}, [TransferPaths -> TransferSizes],
             {{}})

(***************************************************************************)
(* Environment.                                                            *)
(***************************************************************************)
\* d seconds pass, up to the next instant at which a thread looks at the
\* clock.
Tick(d) ==
    /\ now + d <= MaxTime
    /\ now + d \in Instants
    /\ now' = now + d
    /\ UNCHANGED <<files, config, fsize, s3, today, tasks, sync_queue,
                   queue_lock, running, stats, upload_history, pc, cur, loc,
                   prod, retry, hist, dequeueLog, arrival, forceRet,
                   monitor_lock, query, stopDequeues>>

\* Midnight UTC passes.
NextDay ==
    /\ today + 1 < Len(Dates)
    /\ today' = today + 1
    /\ UNCHANGED <<files, config, fsize, s3, now, tasks, sync_queue,
                   queue_lock, running, stats, upload_history, pc, cur, loc,
                   prod, retry, hist, dequeueLog, arrival, forceRet,
                   monitor_lock, query, stopDequeues>>

\* A source file is removed (retention tooling, an operator).
DeleteSource(p) ==
    /\ p \in files
    /\ files' = files \ {p}
    /\ UNCHANGED <<config, fsize, s3, today, now, tasks, sync_queue,
                   queue_lock, running, stats, upload_history, pc, cur, loc,
                   prod, retry, hist, dequeueLog, arrival, forceRet,
                   monitor_lock, query, stopDequeues>>

(***************************************************************************)
(* start / stop.                                                           *)
(***************************************************************************)
\* start() in two steps, as concurrent callers run it: "if self.running:
\* return" ...
StartTest(c) ==
    /\ pc[c] = "idle"
    /\ ~running
    /\ pc' = [pc EXCEPT ![c] = "start_checked"]
    /\ UNCHANGED <<files, config, fsize, s3, today, now, tasks, sync_queue,
                   queue_lock, running, stats, upload_history, cur, loc, prod,
                   retry, hist, dequeueLog, arrival, forceRet,
                   monitor_lock, query, stopDequeues>>

\* ... "self.running = True; self.sync_thread = Thread(target=_sync_loop);
\* self.sync_thread.start()"
StartThread(c, w) ==
    /\ pc[c] = "start_checked"
    /\ pc[w] = "dead"
    /\ running' = TRUE
    /\ pc' = [pc EXCEPT ![c] = "idle", ![w] = "loop"]
    /\ stopDequeues' = [w2 \in Workers |-> 0]
    /\ UNCHANGED <<files, config, fsize, s3, today, now, tasks, sync_queue,
                   queue_lock, stats, upload_history, cur, loc, prod, retry,
                   hist, dequeueLog, arrival, forceRet,
                   monitor_lock, query>>

\* start() by a single caller, in one step: returns at once when running;
\* else sets the flag and starts a new thread on _sync_loop (the AWS client
\* is taken as initialised).
Start(w) ==
    /\ ~running
    /\ pc[w] = "dead"
    /\ running' = TRUE
    /\ pc' = [pc EXCEPT ![w] = "loop"]
    /\ stopDequeues' = [w2 \in Workers |-> 0]
    /\ UNCHANGED <<files, config, fsize, s3, today, now, tasks, sync_queue,
                   queue_lock, stats, upload_history, cur, loc, prod, retry,
                   hist, dequeueLog, arrival, forceRet,
                   monitor_lock, query>>

\* stop(): clears the flag; the join returns when the thread ends or after
\* 30 s, whichever is first, and changes nothing.
Stop ==
    /\ running
    /\ running' = FALSE
    /\ stopDequeues' = [w2 \in Workers |-> 0]
    /\ UNCHANGED <<files, config, fsize, s3, today, now, tasks, sync_queue,
                   queue_lock, stats, upload_history, pc, cur, loc, prod,
                   retry, hist, dequeueLog, arrival, forceRet,
                   monitor_lock, query>>

(***************************************************************************)
(* queue_file_for_sync, in two steps: construct the task, take the lock    *)
(* and append; sort and release.                                           *)
(***************************************************************************)
QueueFileAppend(p, cam, site, priority, has_motion) ==
    /\ prod.pc = "idle"
    /\ queue_lock = "free"
    /\ LET t == Len(tasks) + 1
       IN  /\ tasks' = Append(tasks,
                  SyncTask(p, QueueKey(site, cam, today, p), cam, site,
                           EffectivePriority(priority, has_motion)))
           /\ sync_queue' = Append(sync_queue, t)
           /\ retry' = Append(retry, [pc |-> "none", delay |-> 0])
           /\ hist' = Append(hist, [NoHist("enqueue") EXCEPT !.inserts = 1])
    /\ queue_lock' = "producer"
    /\ prod' = [pc |-> "locked", priority |-> priority,
                has_motion |-> has_motion]
    /\ dequeueLog' = <<>>
    /\ arrival' = Append(arrival, Len(tasks) + 1)
    /\ UNCHANGED <<files, config, fsize, s3, today, now, running, stats,
                   upload_history, pc, cur, loc, forceRet,
                   monitor_lock, query, stopDequeues>>

QueueFileSort ==
    /\ prod.pc = "locked"
    /\ sync_queue' = SortQueue(sync_queue)
    /\ queue_lock' = "free"
    /\ prod' = NoProducer
    /\ UNCHANGED <<files, config, fsize, s3, today, now, tasks, running,
                   stats, upload_history, pc, cur, loc, retry, hist,
                   dequeueLog, arrival, forceRet,
                   monitor_lock, query, stopDequeues>>

(***************************************************************************)
(* retry_task, the thread _handle_sync_result starts for a failed task:    *)
(* sleep(delay); take the lock and append; sort and release.               *)
(***************************************************************************)
RetryAppend(t) ==
    /\ retry[t].pc = "sleep"
    /\ queue_lock = "free"
    /\ queue_lock' = "retry"
    /\ sync_queue' = Append(sync_queue, t)
    /\ retry' = [retry EXCEPT ![t].pc = "locked"]
    /\ hist' = [hist EXCEPT ![t].inserts = @ + 1]
    /\ dequeueLog' = <<>>
    /\ arrival' = Append(SelectSeq(arrival, LAMBDA x : x # t), t)
    /\ UNCHANGED <<files, config, fsize, s3, today, now, tasks, running,
                   stats, upload_history, pc, cur, loc, prod, forceRet,
                   monitor_lock, query, stopDequeues>>

RetrySort(t) ==
    /\ retry[t].pc = "locked"
    /\ sync_queue' = SortQueue(sync_queue)
    /\ queue_lock' = "free"
    /\ retry' = [retry EXCEPT ![t].pc = "none"]
    /\ UNCHANGED <<files, config, fsize, s3, today, now, tasks, running,
                   stats, upload_history, pc, cur, loc, prod, hist,
                   dequeueLog, arrival, forceRet,
                   monitor_lock, query, stopDequeues>>

(***************************************************************************)
(* _sync_loop.                                                             *)
(***************************************************************************)
\* The first step of _sync_file(task) on thread th.
BeginSync(th, t) ==
    /\ cur' = [cur EXCEPT ![th] = t]
    /\ loc' = [loc EXCEPT ![th] = [NoLoc EXCEPT !.hadObj = tasks[t].s3_key \in s3]]
    /\ hist' = [hist EXCEPT ![t].execs = @ + 1]

\* Mutant: the loop goes on whatever the flag says.
AfterLoopTestForever(flag) == "throttle"

\* Where "while self.running" leads: into the body, or out of _sync_loop.
AfterLoopTest(flag) == IF flag THEN "throttle" ELSE "dead"

\* "while self.running"
LoopTest(w) ==
    /\ pc[w] = "loop"
    /\ pc' = [pc EXCEPT ![w] = AfterLoopTest(running)]
    /\ UNCHANGED <<files, config, fsize, s3, today, now, tasks, sync_queue,
                   queue_lock, running, stats, upload_history, cur, loc, prod,
                   retry, hist, dequeueLog, arrival, forceRet,
                   monitor_lock, query, stopDequeues>>

\* Mutant: the loop takes the throttle branch whatever should_throttle says.
ThrottleBranchAlways(throttled) == "delay_test"

\* Mutant: the loop dequeues whatever should_throttle says.
ThrottleBranchIgnored(throttled) == "dequeue"

\* "if should_throttle(): delay = get_throttle_delay(); sleep(delay);
\*  continue", else on to the dequeue
ThrottleBranch(throttled) == IF throttled THEN "delay_test" ELSE "dequeue"

\* "if self.bandwidth_monitor.should_throttle()"
LoopThrottle(w) ==
    /\ pc[w] = "throttle"
    /\ monitor_lock = "free"
    /\ pc' = [pc EXCEPT ![w] = ThrottleBranch(ShouldThrottle(upload_history, now))]
    /\ UNCHANGED <<files, config, fsize, s3, today, now, tasks, sync_queue,
                   queue_lock, running, stats, upload_history, cur, loc, prod,
                   retry, hist, dequeueLog, arrival, forceRet,
                   monitor_lock, query, stopDequeues>>

\* get_throttle_delay, first statement: "if not self.should_throttle():
\* return 0.0", a locked read of the usage of its own.
GetThrottleDelayTest(w) ==
    /\ pc[w] = "delay_test"
    /\ monitor_lock = "free"
    /\ LET u == GetCurrentBandwidthUsage(upload_history, now)
       IN  IF ShouldThrottle(upload_history, now)
           THEN /\ loc' = [loc EXCEPT ![w].usage1 = u]
                /\ pc' = [pc EXCEPT ![w] = "delay_compute"]
           ELSE /\ loc' = [loc EXCEPT ![w].usage1 = u, ![w].delayed = TRUE,
                                      ![w].delay = <<0, 1>>]
                /\ pc' = [pc EXCEPT ![w] = "sleep_throttle"]
    /\ UNCHANGED <<files, config, fsize, s3, today, now, tasks, sync_queue,
                   queue_lock, running, stats, upload_history, cur, prod,
                   retry, hist, dequeueLog, arrival, forceRet,
                   monitor_lock, query, stopDequeues>>

\* get_throttle_delay, the rest: a second locked read of the usage, and the
\* delay from it.
GetThrottleDelayCompute(w) ==
    /\ pc[w] = "delay_compute"
    /\ monitor_lock = "free"
    /\ LET u == GetCurrentBandwidthUsage(upload_history, now)
       IN  loc' = [loc EXCEPT ![w].usage2 = u, ![w].delayed = TRUE,
                              ![w].delay = ThrottleDelay(u)]
    /\ pc' = [pc EXCEPT ![w] = "sleep_throttle"]
    /\ UNCHANGED <<files, config, fsize, s3, today, now, tasks, sync_queue,
                   queue_lock, running, stats, upload_history, cur, prod,
                   retry, hist, dequeueLog, arrival, forceRet,
                   monitor_lock, query, stopDequeues>>

\* time.sleep(delay); continue      and      time.sleep(1.0); continue
\* and, in the handler of the loop, time.sleep(5.0)
LoopWake(w) ==
    /\ pc[w] \in {"sleep_throttle", "sleep_idle", "sleep_error"}
    /\ pc' = [pc EXCEPT ![w] = "loop"]
    /\ loc' = [loc EXCEPT ![w] = NoLoc]
    /\ UNCHANGED <<files, config, fsize, s3, today, now, tasks, sync_queue,
                   queue_lock, running, stats, upload_history, cur, prod,
                   retry, hist, dequeueLog, arrival, forceRet,
                   monitor_lock, query, stopDequeues>>

\* Mutant: the loop keeps the lock after the pop.
LockKeptAfterPop(w) == w

\* The holder of the queue lock when the "with self.queue_lock" block of
\* the loop is left, before the sleep or the transfer.
LockAfterPop(w) == "free"

\* Mutant: the loop reads the first task and leaves it in the queue.
QueueAfterPeek(q) == q

\* The queue after "self.sync_queue.pop(0)"
QueueAfterPop(q) == Tail(q)

\* "with self.queue_lock: if self.sync_queue: task = self.sync_queue.pop(0)"
\* and, with a task, the call of _sync_file.
LoopDequeue(w) ==
    /\ pc[w] = "dequeue"
    /\ queue_lock = "free"
    /\ queue_lock' = LockAfterPop(w)
    /\ IF sync_queue # <<>>
       THEN /\ sync_queue' = QueueAfterPop(sync_queue)
            /\ dequeueLog' = Append(dequeueLog, Head(sync_queue))
            /\ BeginSync(w, Head(sync_queue))
            /\ pc' = [pc EXCEPT ![w] = "sf_exists"]
       ELSE /\ pc' = [pc EXCEPT ![w] = "sleep_idle"]
            /\ UNCHANGED <<sync_queue, dequeueLog, cur, loc, hist>>
    /\ stopDequeues' = IF sync_queue # <<>> /\ ~running
                       THEN [stopDequeues EXCEPT ![w] = @ + 1]
                       ELSE stopDequeues
    /\ UNCHANGED <<files, config, fsize, s3, today, now, tasks,
                   running, stats, upload_history, prod, retry, arrival,
                   forceRet,
                   monitor_lock, query>>

(***************************************************************************)
(* _sync_file, as run by a scheduler loop or by a force_sync_file caller.  *)
(***************************************************************************)
Task(th) == tasks[cur[th]]

Failure(msg) == [set |-> TRUE, success |-> FALSE, error |-> msg, bytes |-> 0]

\* Mutant: the existing object is reported as an upload of the whole file.
ExistingResultCounted(size) ==
    [set |-> TRUE, success |-> TRUE, error |-> "", bytes |-> size]

\* SyncResult(success=True, bytes_uploaded=0) when head_object finds the key
ExistingResult(size) == [set |-> TRUE, success |-> TRUE, error |-> "", bytes |-> 0]

\* SyncResult(success=True, bytes_uploaded=file_size) after the upload
UploadedResult(size) == [set |-> TRUE, success |-> TRUE, error |-> "", bytes |-> size]

\* Mutant: a source of exactly the threshold goes the chunked way.
UploadPcAtThreshold(size) ==
    IF size >= multipart_threshold THEN "mp_create" ELSE "sf_upload"

\* "if file_size > 100 * 1024 * 1024: _multipart_upload else: upload_file"
UploadPc(size) == IF size > multipart_threshold THEN "mp_create" ELSE "sf_upload"

\* "if not Path(task.local_path).exists(): return SyncResult(success=False)";
\* "file_size = Path(task.local_path).stat().st_size"
SfExists(th) ==
    /\ pc[th] = "sf_exists"
    /\ IF Task(th).local_path \in files
       THEN /\ loc' = [loc EXCEPT ![th].file_size = fsize[Task(th).local_path]]
            /\ pc' = [pc EXCEPT ![th] = "sf_probe"]
       ELSE /\ loc' = [loc EXCEPT ![th].result = Failure("Local file not found")]
            /\ pc' = [pc EXCEPT ![th] = "handle"]
    /\ UNCHANGED <<files, config, fsize, s3, today, now, tasks, sync_queue,
                   queue_lock, running, stats, upload_history, cur, prod,
                   retry, hist, dequeueLog, arrival, forceRet,
                   monitor_lock, query, stopDequeues>>

\* head_object: the object is found, or it is not (404), or the call fails
\* with another error, which is raised to the handler at the end of
\* _sync_file.
SfProbe(th) ==
    /\ pc[th] = "sf_probe"
    /\ \/ /\ Task(th).s3_key \in s3
          /\ loc' = [loc EXCEPT ![th].result = ExistingResult(loc[th].file_size)]
          /\ pc' = [pc EXCEPT ![th] = "handle"]
       \/ /\ Task(th).s3_key \notin s3
          /\ pc' = [pc EXCEPT ![th] = UploadPc(loc[th].file_size)]
          /\ loc' = loc
       \/ /\ loc' = [loc EXCEPT ![th].result = Failure("head_object")]
          /\ pc' = [pc EXCEPT ![th] = "handle"]
    /\ hist' = [hist EXCEPT ![cur[th]].keys = @ \cup {Task(th).s3_key}]
    /\ UNCHANGED <<files, config, fsize, s3, today, now, tasks, sync_queue,
                   queue_lock, running, stats, upload_history, cur, prod,
                   retry, dequeueLog, arrival, forceRet,
                   monitor_lock, query, stopDequeues>>

\* s3_client.upload_file: the object is written, or the call raises.
SfUpload(th) ==
    /\ pc[th] = "sf_upload"
    /\ \/ /\ s3' = s3 \cup {Task(th).s3_key}
          /\ loc' = [loc EXCEPT ![th].xfer = @ + 1]
          /\ pc' = [pc EXCEPT ![th] = "sf_record"]
       \/ /\ loc' = [loc EXCEPT ![th].xfer = @ + 1,
                                ![th].result = Failure("upload_file")]
          /\ pc' = [pc EXCEPT ![th] = "handle"]
          /\ s3' = s3
    /\ hist' = [hist EXCEPT ![cur[th]].keys = @ \cup {Task(th).s3_key}]
    /\ UNCHANGED <<files, config, fsize, today, now, tasks, sync_queue,
                   queue_lock, running, stats, upload_history, cur, prod,
                   retry, dequeueLog, arrival, forceRet,
                   monitor_lock, query, stopDequeues>>

\* Mutant: record_upload returns with the monitor lock still held.
MonitorLockKept(th) == th

\* The holder of the monitor lock when "with self.lock" of record_upload is
\* left.
MonitorLockAfterRecord(th) == "free"

\* record_upload called after upload_file: "with self.lock", the acquisition
RecordUploadLock(th) ==
    /\ pc[th] = "sf_record"
    /\ monitor_lock = "free"
    /\ monitor_lock' = th
    /\ UNCHANGED <<files, config, fsize, s3, today, now, tasks, sync_queue,
                   queue_lock, running, stats, upload_history, pc, cur, loc,
                   prod, retry, hist, dequeueLog, arrival, forceRet,
                   query, stopDequeues>>

\* The body of record_upload under the lock, its release, and the
\* successful return.
SfRecord(th) ==
    /\ pc[th] = "sf_record"
    /\ monitor_lock = th
    /\ monitor_lock' = MonitorLockAfterRecord(th)
    /\ upload_history' = RecordUpload(upload_history, now, loc[th].file_size)
    /\ loc' = [loc EXCEPT ![th].result = UploadedResult(loc[th].file_size),
                           ![th].recorded = @ + loc[th].file_size]
    /\ pc' = [pc EXCEPT ![th] = "handle"]
    /\ UNCHANGED <<files, config, fsize, s3, today, now, tasks, sync_queue,
                   queue_lock, running, stats, cur, prod, retry, hist,
                   dequeueLog, arrival, forceRet,
                   query, stopDequeues>>

(***************************************************************************)
(* _multipart_upload.                                                      *)
(***************************************************************************)
\* Mutant: a trailing part shorter than part_size is not read.
ReadLenFullOnly(remaining) == IF remaining >= part_size THEN part_size ELSE 0

\* len(f.read(part_size)) with `remaining` bytes left in the file
ReadLen(remaining) == Min(part_size, remaining)

\* Mutant: the error is raised without the abort call.
RaiseWithoutAbort(l, ok) == [l EXCEPT !.result = Failure("multipart")]

\* The except branch of _multipart_upload: abort_multipart_upload is called
\* (its own failure is swallowed and leaves the session open), then the
\* error is raised to _sync_file, which returns the failed result.
AbortAndRaise(l, ok) ==
    [l EXCEPT !.aborts = @ + 1,
              !.session = IF ok THEN "aborted" ELSE @,
              !.result = Failure("multipart")]

\* create_multipart_upload, before the try block: when it raises there is
\* no session and nothing to abort.
MpCreate(th) ==
    /\ pc[th] = "mp_create"
    /\ \/ /\ loc' = [loc EXCEPT ![th].session = "open", ![th].parts = <<>>,
                                ![th].part_number = 1, ![th].offset = 0,
                                ![th].xfer = @ + 1]
          /\ pc' = [pc EXCEPT ![th] = "mp_part"]
       \/ /\ loc' = [loc EXCEPT ![th].xfer = @ + 1,
                                ![th].result = Failure("create_multipart_upload")]
          /\ pc' = [pc EXCEPT ![th] = "handle"]
    /\ hist' = [hist EXCEPT ![cur[th]].keys = @ \cup {Task(th).s3_key}]
    /\ UNCHANGED <<files, config, fsize, s3, today, now, tasks, sync_queue,
                   queue_lock, running, stats, upload_history, cur, prod,
                   retry, dequeueLog, arrival, forceRet,
                   monitor_lock, query, stopDequeues>>

\* One turn of the read loop: an empty read leaves the loop; otherwise
\* upload_part is called and, when it succeeds, the part is appended, the
\* part number incremented and the bytes recorded with the monitor.
MpPart(th) ==
    /\ pc[th] = "mp_part"
    /\ LET n == ReadLen(loc[th].file_size - loc[th].offset)
       IN  \/ /\ n = 0
              /\ pc' = [pc EXCEPT ![th] = "mp_commit"]
              /\ UNCHANGED <<loc, upload_history>>
           \/ /\ n > 0
              /\ monitor_lock = "free"
              /\ loc' = [loc EXCEPT
                     ![th].parts = Append(@, [PartNumber |-> loc[th].part_number,
                                              ETag |-> <<loc[th].part_number, n>>]),
                     ![th].part_number = @ + 1,
                     ![th].offset = @ + n,
                     ![th].xfer = @ + 1,
                     ![th].recorded = @ + n]
              /\ upload_history' = RecordUpload(upload_history, now, n)
              /\ pc' = [pc EXCEPT ![th] = "mp_part"]
           \/ /\ n > 0
              /\ loc' = [loc EXCEPT ![th].xfer = @ + 1, ![th].partFailed = TRUE]
              /\ pc' = [pc EXCEPT ![th] = "mp_abort"]
              /\ UNCHANGED upload_history
    /\ UNCHANGED <<files, config, fsize, s3, today, now, tasks, sync_queue,
                   queue_lock, running, stats, cur, prod, retry, hist,
                   dequeueLog, arrival, forceRet,
                   monitor_lock, query, stopDequeues>>

\* complete_multipart_upload with the part list.
MpCommit(th) ==
    /\ pc[th] = "mp_commit"
    /\ \/ /\ s3' = s3 \cup {Task(th).s3_key}
          /\ loc' = [loc EXCEPT ![th].session = "committed",
                                ![th].commits = @ + 1,
                                ![th].commitAfterFail = loc[th].partFailed,
                                ![th].committed = loc[th].parts]
          /\ pc' = [pc EXCEPT ![th] = "sf_record"]
       \/ /\ loc' = [loc EXCEPT ![th].commits = @ + 1,
                                ![th].commitAfterFail = loc[th].partFailed]
          /\ pc' = [pc EXCEPT ![th] = "mp_abort"]
          /\ s3' = s3
    /\ UNCHANGED <<files, config, fsize, today, now, tasks, sync_queue,
                   queue_lock, running, stats, upload_history, cur, prod,
                   retry, hist, dequeueLog, arrival, forceRet,
                   monitor_lock, query, stopDequeues>>

MpAbort(th) ==
    /\ pc[th] = "mp_abort"
    /\ \E ok \in BOOLEAN : loc' = [loc EXCEPT ![th] = AbortAndRaise(@, ok)]
    /\ pc' = [pc EXCEPT ![th] = "handle"]
    /\ UNCHANGED <<files, config, fsize, s3, today, now, tasks, sync_queue,
                   queue_lock, running, stats, upload_history, cur, prod,
                   retry, hist, dequeueLog, arrival, forceRet,
                   monitor_lock, query, stopDequeues>>

(***************************************************************************)
(* _handle_sync_result.                                                    *)
(***************************************************************************)
\* Mutant: off by one, one retry more.
ShouldRetryOnceMore(task) == task.retry_count <= config.retry_attempts

\* "if result.task.retry_count < config.sync.retry_attempts"
ShouldRetry(task) == task.retry_count < config.retry_attempts

\* Mutant: the delay computed from the count before its increment.
BackoffDelayBeforeIncrement(retry_count) ==
    Min(Pow2(retry_count - 1), max_backoff)

\* "delay = min(2 ** result.task.retry_count, 300)", on the incremented count
BackoffDelay(retry_count) == Min(Pow2(retry_count), max_backoff)

\* Mutant: the retry is scheduled and the count left as it was.
RetriedTaskUncounted(task) == task

\* Mutant: the count is incremented twice for one failure.
RetriedTaskTwice(task) == [task EXCEPT !.retry_count = @ + 2]

\* Mutant: the retry gets a key made anew, without the date.
RetriedTaskRekeyed(task) ==
    [task EXCEPT !.retry_count = @ + 1,
                 !.s3_key = <<"cctv", task.site_id, task.camera_id,
                              FileName(task.local_path)>>]

\* "result.task.retry_count += 1": the task the retry thread appends is the
\* object that failed, nothing else of it changed.
RetriedTask(task) == [task EXCEPT !.retry_count = @ + 1]

\* Mutant: the retry thread is at its locked block at once, without its
\* sleep.
RetryTimerNoSleep(delay) == [pc |-> "locked", delay |-> delay]

\* "retry_thread = threading.Thread(target=retry_task, daemon=True);
\* retry_thread.start()": a thread of its own, which begins with
\* time.sleep(delay)
RetryTimer(delay) == [pc |-> "sleep", delay |-> delay]

\* Mutant: a failed attempt is not counted.
StatsAfterSuccessOnly(s, r) ==
    IF r.success
    THEN [s EXCEPT !.total_uploads = @ + 1,
                   !.successful_uploads = @ + 1,
                   !.total_bytes_uploaded = @ + r.bytes]
    ELSE [s EXCEPT !.total_uploads = @ + 1]

\* The counters after one result.
StatsAfter(s, r) ==
    IF r.success
    THEN [s EXCEPT !.total_uploads = @ + 1,
                   !.successful_uploads = @ + 1,
                   !.total_bytes_uploaded = @ + r.bytes]
    ELSE [s EXCEPT !.total_uploads = @ + 1,
                   !.failed_uploads = @ + 1]

\* Path(result.task.local_path).with_suffix('.synced')
SyncedMarker(p) == WithSuffix(p, "synced")

\* Where the caller of _handle_sync_result goes on: the loop starts its next
\* iteration, force_sync_file returns result.success.
AfterHandle(th) == IF th \in Workers THEN "loop" ELSE "idle"

\* The counters a result updates.
Touched(r) ==
    IF r.success
    THEN {"total_uploads", "successful_uploads", "total_bytes_uploaded"}
    ELSE {"total_uploads", "failed_uploads"}

\* "self.x += 1" is a read and a write with no lock: the handler reads the
\* counters ...
HandleRead(th) ==
    /\ pc[th] = "handle"
    /\ loc' = [loc EXCEPT ![th].seen = stats]
    /\ pc' = [pc EXCEPT ![th] = "handle_write"]
    /\ UNCHANGED <<files, config, fsize, s3, today, now, tasks, sync_queue,
                   queue_lock, running, stats, upload_history, cur, prod,
                   retry, hist, dequeueLog, arrival, forceRet,
                   monitor_lock, query, stopDequeues>>

\* ... and writes them, each from the value it read, which is the current
\* one or, when another thread's handler wrote in between, an older one;
\* then it touches the marker or starts the retry thread.
HandleSyncResult(th) ==
    /\ pc[th] = "handle_write"
    /\ LET t == cur[th]
           r == loc[th].result
       IN  /\ \E stale \in SUBSET {c \in Touched(r) : loc[th].seen[c] # stats[c]} :
                  stats' = StatsAfter(
                      [c \in DOMAIN stats |->
                          IF c \in stale THEN loc[th].seen[c] ELSE stats[c]], r)
           /\ IF r.success
              THEN /\ \/ files' = files \cup {SyncedMarker(tasks[t].local_path)}
                      \/ files' = files     \* touch() failed, a warning only
                   /\ hist' = [hist EXCEPT ![t].done = TRUE]
                   /\ UNCHANGED <<tasks, retry>>
              ELSE /\ files' = files
                   /\ IF ShouldRetry(tasks[t])
                      THEN /\ tasks' = [tasks EXCEPT ![t] = RetriedTask(@)]
                           /\ retry' = [retry EXCEPT ![t] =
                                  RetryTimer(BackoffDelay(tasks[t].retry_count + 1))]
                           /\ hist' = [hist EXCEPT
                                  ![t].fails = @ + 1,
                                  ![t].missing = @ \/ r.error = "Local file not found",
                                  ![t].delays = Append(@,
                                      BackoffDelay(tasks[t].retry_count + 1))]
                      ELSE /\ hist' = [hist EXCEPT
                                  ![t].fails = @ + 1,
                                  ![t].missing = @ \/ r.error = "Local file not found",
                                  ![t].dropped = TRUE]
                           /\ UNCHANGED <<tasks, retry>>
           /\ forceRet' = IF th \in Forcers
                          THEN [forceRet EXCEPT ![th] = r.success]
                          ELSE forceRet
    /\ cur' = [cur EXCEPT ![th] = 0]
    /\ loc' = [loc EXCEPT ![th] = NoLoc]
    /\ pc' = [pc EXCEPT ![th] = AfterHandle(th)]
    /\ UNCHANGED <<config, fsize, s3, today, now, sync_queue, queue_lock,
                   running, upload_history, prod, dequeueLog, arrival,
                   monitor_lock, query, stopDequeues>>

\* Mutant: no handler, the exception ends the thread.
AfterErrorDies(th) == IF th \in Workers THEN "dead" ELSE "idle"

\* Where an exception out of _handle_sync_result is caught: "except
\* Exception" of the loop, which sleeps 5 s and goes on, or that of
\* force_sync_file, which returns False.
AfterError(th) == IF th \in Workers THEN "sleep_error" ELSE "idle"

\* _handle_sync_result of a failed result that is to be retried, when
\* retry_thread.start() raises (RuntimeError: can't start new thread): the
\* counters and retry_count are written, no retry thread exists, and the
\* exception goes to the caller's handler.
HandleSyncResultRaise(th) ==
    /\ pc[th] = "handle_write"
    /\ ~loc[th].result.success
    /\ ShouldRetry(Task(th))
    /\ LET t == cur[th]
           r == loc[th].result
       IN  /\ \E stale \in SUBSET {c \in Touched(r) : loc[th].seen[c] # stats[c]} :
                  stats' = StatsAfter(
                      [c \in DOMAIN stats |->
                          IF c \in stale THEN loc[th].seen[c] ELSE stats[c]], r)
           /\ tasks' = [tasks EXCEPT ![t] = RetriedTask(@)]
           /\ hist' = [hist EXCEPT
                  ![t].fails = @ + 1,
                  ![t].missing = @ \/ r.error = "Local file not found"]
    /\ forceRet' = IF th \in Forcers
                   THEN [forceRet EXCEPT ![th] = FALSE]
                   ELSE forceRet
    /\ cur' = [cur EXCEPT ![th] = 0]
    /\ loc' = [loc EXCEPT ![th] = NoLoc]
    /\ pc' = [pc EXCEPT ![th] = AfterError(th)]
    /\ UNCHANGED <<files, config, fsize, s3, today, now, sync_queue,
                   queue_lock, running, upload_history, prod, retry,
                   dequeueLog, arrival,
                   monitor_lock, query, stopDequeues>>

(***************************************************************************)
(* force_sync_file: constructs a task and runs _sync_file on the caller's  *)
(* thread.                                                                 *)
(***************************************************************************)
ForceSyncFile(f, p, cam, site) ==
    /\ pc[f] = "idle"
    /\ LET t == Len(tasks) + 1
           task == SyncTask(p, ForceKey(site, cam, today, p), cam, site,
                            force_priority)
       IN  /\ tasks' = Append(tasks, task)
           /\ retry' = Append(retry, [pc |-> "none", delay |-> 0])
           /\ hist' = Append(hist, [NoHist("force") EXCEPT !.execs = 1])
           /\ cur' = [cur EXCEPT ![f] = t]
           /\ loc' = [loc EXCEPT ![f] = [NoLoc EXCEPT !.hadObj = task.s3_key \in s3]]
    /\ pc' = [pc EXCEPT ![f] = "sf_exists"]
    /\ forceRet' = [forceRet EXCEPT ![f] = "none"]
    /\ UNCHANGED <<files, config, fsize, s3, today, now, sync_queue,
                   queue_lock, running, stats, upload_history, prod,
                   dequeueLog, arrival,
                   monitor_lock, query, stopDequeues>>

(***************************************************************************)
(* get_statistics, which reads the counters without a lock and then calls  *)
(* get_queue_status: "with self.queue_lock", and inside it two calls of    *)
(* the monitor, each of which takes the monitor lock for itself.           *)
(***************************************************************************)
\* "'total_uploads': self.total_uploads"
QueryTotal ==
    /\ query.pc \in {"idle", "returned"}
    /\ query' = [NoQuery EXCEPT !.pc = "read_successful",
                                !.total_uploads = stats.total_uploads]
    /\ UNCHANGED <<files, config, fsize, s3, today, now, tasks, sync_queue,
                   queue_lock, running, stats, upload_history, pc, cur, loc,
                   prod, retry, hist, dequeueLog, arrival, forceRet,
                   monitor_lock, stopDequeues>>

\* "'successful_uploads': self.successful_uploads"
QuerySuccessful ==
    /\ query.pc = "read_successful"
    /\ query' = [query EXCEPT !.pc = "read_failed",
                              !.successful_uploads = stats.successful_uploads]
    /\ UNCHANGED <<files, config, fsize, s3, today, now, tasks, sync_queue,
                   queue_lock, running, stats, upload_history, pc, cur, loc,
                   prod, retry, hist, dequeueLog, arrival, forceRet,
                   monitor_lock, stopDequeues>>

\* "'failed_uploads': self.failed_uploads", and on to get_queue_status
QueryFailed ==
    /\ query.pc = "read_failed"
    /\ query' = [query EXCEPT !.pc = "queue_lock",
                              !.failed_uploads = stats.failed_uploads]
    /\ UNCHANGED <<files, config, fsize, s3, today, now, tasks, sync_queue,
                   queue_lock, running, stats, upload_history, pc, cur, loc,
                   prod, retry, hist, dequeueLog, arrival, forceRet,
                   monitor_lock, stopDequeues>>

\* get_queue_status: "with self.queue_lock"
QueryQueueLock ==
    /\ query.pc = "queue_lock"
    /\ queue_lock = "free"
    /\ queue_lock' = "query"
    /\ query' = [query EXCEPT !.pc = "usage_lock"]
    /\ UNCHANGED <<files, config, fsize, s3, today, now, tasks, sync_queue,
                   running, stats, upload_history, pc, cur, loc,
                   prod, retry, hist, dequeueLog, arrival, forceRet,
                   monitor_lock, stopDequeues>>

\* The next position of the query after a monitor call.
QueryAfter(position) ==
    CASE position = "usage_lock" -> "usage"
      [] position = "usage" -> "throttle_lock"
      [] position = "throttle_lock" -> "throttle"
      [] position = "throttle" -> "unlock"

\* get_current_bandwidth_usage called for 'bandwidth_usage_mbps' and again
\* by should_throttle for 'is_throttling': "with self.lock"
QueryMonitorLock ==
    /\ query.pc \in {"usage_lock", "throttle_lock"}
    /\ monitor_lock = "free"
    /\ monitor_lock' = "query"
    /\ query' = [query EXCEPT !.pc = QueryAfter(@)]
    /\ UNCHANGED <<files, config, fsize, s3, today, now, tasks, sync_queue,
                   queue_lock, running, stats, upload_history, pc, cur, loc,
                   prod, retry, hist, dequeueLog, arrival, forceRet,
                   stopDequeues>>

\* The locked read of the usage and the end of "with self.lock"
QueryMonitorUnlock ==
    /\ query.pc \in {"usage", "throttle"}
    /\ monitor_lock = "query"
    /\ monitor_lock' = "free"
    /\ query' = [query EXCEPT !.pc = QueryAfter(@)]
    /\ UNCHANGED <<files, config, fsize, s3, today, now, tasks, sync_queue,
                   queue_lock, running, stats, upload_history, pc, cur, loc,
                   prod, retry, hist, dequeueLog, arrival, forceRet,
                   stopDequeues>>

\* The end of "with self.queue_lock" and the return of the dictionary.
QueryReturn ==
    /\ query.pc = "unlock"
    /\ queue_lock' = "free"
    /\ query' = [query EXCEPT !.pc = "returned"]
    /\ UNCHANGED <<files, config, fsize, s3, today, now, tasks, sync_queue,
                   running, stats, upload_history, pc, cur, loc,
                   prod, retry, hist, dequeueLog, arrival, forceRet,
                   monitor_lock, stopDequeues>>

(***************************************************************************)
(* Specifications.                                                         *)
(***************************************************************************)
EnqueueWith(paths, limit, priorities) ==
    /\ Len(tasks) < limit
    /\ \E p \in paths, cam \in Cameras, site \in Sites,
          priority \in priorities, has_motion \in BOOLEAN :
           QueueFileAppend(p, cam, site, priority, has_motion)

EnqueueFrom(paths, limit) == EnqueueWith(paths, limit, Priorities)

ForceFrom(paths, limit) ==
    /\ Len(tasks) < limit
    /\ \E f \in Forcers, p \in paths, cam \in Cameras, site \in Sites :
           ForceSyncFile(f, p, cam, site)

RetryThread == \E t \in 1..Len(tasks) : RetryAppend(t) \/ RetrySort(t)

SyncLoop == \E w \in Workers :
                LoopTest(w) \/ LoopThrottle(w) \/ LoopWake(w) \/ LoopDequeue(w)

\* _sync_file and _handle_sync_result for sources up to the multipart
\* threshold
SyncSmallFile == \E th \in Execs :
                     \/ SfExists(th) \/ SfProbe(th) \/ SfUpload(th)
                     \/ RecordUploadLock(th) \/ SfRecord(th) \/ HandleRead(th) \/ HandleSyncResult(th)

GetStatistics ==
    \/ QueryTotal \/ QuerySuccessful \/ QueryFailed \/ QueryQueueLock
    \/ QueryMonitorLock \/ QueryMonitorUnlock \/ QueryReturn

\* get_throttle_delay as the scheduler loop calls it
GetThrottleDelay == \E w \in Workers :
                        GetThrottleDelayTest(w) \/ GetThrottleDelayCompute(w)

Multipart == \E th \in Execs :
                 MpCreate(th) \/ MpPart(th) \/ MpCommit(th) \/ MpAbort(th)

\* The service with one scheduler loop, a producer, a force-sync caller and
\* the retry threads, on one small source that may be removed at any time.
Next ==
    \/ \E w \in MainWorkers : Start(w)
    \/ EnqueueFrom(MainPaths, MaxTasks)
    \/ QueueFileSort
    \/ RetryThread
    \/ SyncLoop
    \/ SyncSmallFile
    \/ ForceFrom(MainPaths, MaxTasks)
    \/ \E p \in MainPaths : DeleteSource(p)

Spec == Init /\ [][Next]_vars

\* The queue alone: the producer, one scheduler loop and the retry threads,
\* the service configured with a single retry.
NextQueue ==
    \/ \E w \in MainWorkers : Start(w)
    \/ EnqueueFrom(MainPaths, MaxQueueTasks)
    \/ QueueFileSort
    \/ RetryThread
    \/ SyncLoop
    \/ SyncSmallFile

SpecQueue == InitQueue /\ [][NextQueue]_vars

\* The transfer executor alone, run by force_sync_file callers one after
\* the other on a source of any of TransferSizes (the service is not
\* started, so a retried task stays in the queue).
NextTransfer ==
    \/ ForceFrom(TransferPaths, MaxTasks)
    \/ SyncSmallFile
    \/ Multipart
    \/ RetryThread
    \/ \E p \in TransferPaths : DeleteSource(p)

SpecTransfer == InitTransfer /\ [][NextTransfer]_vars

\* The throttle: one scheduler loop and a producer on two sources whose
\* upload exceeds the budget, and the clock.
NextMonitor ==
    \/ \E w \in MainWorkers : Start(w)
    \/ EnqueueFrom(MonitorPaths, MaxMonitorTasks)
    \/ QueueFileSort
    \/ SyncLoop
    \/ GetThrottleDelay
    \/ SyncSmallFile
    \/ \E d \in 1..MaxTime : Tick(d)

SpecMonitor == InitMonitor /\ [][NextMonitor]_vars

\* start and stop called by any thread at any time, two scheduler-loop
\* thread slots, tasks of one priority, and a thread limit that can make retry_thread.start()
\* raise (the other specifications take it that a thread can always be
\* started).
NextLifecycle ==
    \/ \E c \in Starters : StartTest(c)
    \/ \E c \in Starters, w \in Workers : StartThread(c, w)
    \/ Stop
    \/ EnqueueWith(MainPaths, MaxLifeTasks, {motion_priority})
    \/ QueueFileSort
    \/ RetryThread
    \/ SyncLoop
    \/ SyncSmallFile
    \/ \E th \in Workers : HandleSyncResultRaise(th)

SpecLifecycle == InitLifecycle /\ [][NextLifecycle]_vars

\* The backoff: one scheduler loop, a producer and the retry threads, the
\* service configured with any retry_attempts up to MaxRetryAttempts.
NextBackoff ==
    \/ \E w \in MainWorkers : Start(w)
    \/ EnqueueWith(MainPaths, MaxBackoffTasks, {1})
    \/ QueueFileSort
    \/ RetryThread
    \/ SyncLoop
    \/ SyncSmallFile

SpecBackoff == InitBackoff /\ [][NextBackoff]_vars

\* The status query: a caller of get_statistics next to one scheduler loop,
\* a producer, a force_sync_file caller and the retry threads.
NextStatus ==
    \/ \E w \in MainWorkers : Start(w)
    \/ EnqueueWith(MainPaths, MaxStatusTasks, {motion_priority})
    \/ QueueFileSort
    \/ RetryThread
    \/ SyncLoop
    \/ SyncSmallFile
    \/ ForceFrom(MainPaths, MaxStatusTasks)
    \/ GetStatistics

SpecStatus == InitStatus /\ [][NextStatus]_vars

\* Shutdown: start and stop by one caller, one scheduler loop, a producer
\* and the retry threads.  Every thread that can take a step eventually
\* takes it (a transfer in flight terminates, a sleep ends, a lock is
\* released).
NextStop ==
    \/ \E w \in MainWorkers : Start(w)
    \/ Stop
    \/ EnqueueWith(MainPaths, MaxStopTasks, {motion_priority})
    \/ QueueFileSort
    \/ RetryThread
    \/ SyncLoop
    \/ SyncSmallFile

SpecStop ==
    /\ InitStop
    /\ [][NextStop]_vars
    /\ WF_vars(QueueFileSort)
    /\ WF_vars(RetryThread)
    /\ WF_vars(SyncLoop)
    /\ WF_vars(SyncSmallFile)

\* Progress: one scheduler loop, a producer of finitely many tasks, the
\* retry threads and the clock; no force_sync_file caller.  Every thread
\* that can take a step eventually takes it, and the clock advances in
\* every sleep of a throttled loop that is repeated for ever.
NextProgress ==
    \/ \E w \in MainWorkers : Start(w)
    \/ EnqueueWith(ProgressPaths, MaxProgressTasks, {motion_priority})
    \/ QueueFileSort
    \/ RetryThread
    \/ SyncLoop
    \/ GetThrottleDelay
    \/ SyncSmallFile
    \/ \E d \in 1..MaxTime : Tick(d)

SleepingTick ==
    /\ \E w \in Workers : pc[w] = "sleep_throttle"
    /\ \E d \in 1..MaxTime : Tick(d)

SpecProgress ==
    /\ InitProgress
    /\ [][NextProgress]_vars
    /\ WF_vars(QueueFileSort)
    /\ WF_vars(RetryThread)
    /\ WF_vars(SyncLoop)
    /\ WF_vars(GetThrottleDelay)
    /\ WF_vars(SyncSmallFile)
    /\ SF_vars(SleepingTick)

(***************************************************************************)
(* Properties.                                                             *)
(***************************************************************************)
TaskIds == 1..Len(tasks)

InQueue(t) == \E i \in 1..Len(sync_queue) : sync_queue[i] = t

InFlight(t) == \E th \in Execs : cur[th] = t

Pos(s, x) == CHOOSE i \in 1..Len(s) : s[i] = x

\* Insertions of t into the queue by retry threads.
Reinserts(t) ==
    hist[t].inserts - (IF hist[t].origin = "enqueue" THEN 1 ELSE 0)

RECURSIVE SumFails(_)
SumFails(n) == IF n = 0 THEN 0 ELSE hist[n].fails + SumFails(n - 1)

Ceil(a, b) == (a + b - 1) \div b

\* C1: the tasks dequeued by the scheduler loop since the last insertion
\* into the queue (enqueues followed by dequeues) come in non-increasing
\* priority, and tasks of equal priority in the order of their insertion.
C1_DequeueOrder ==
    \A i, j \in 1..Len(dequeueLog) :
        i < j =>
            \/ Prio(dequeueLog[i]) > Prio(dequeueLog[j])
            \/ /\ Prio(dequeueLog[i]) = Prio(dequeueLog[j])
               /\ Pos(arrival, dequeueLog[i]) < Pos(arrival, dequeueLog[j])

\* A(1), B(3), C(1) enqueued in this order were dequeued B, A, C.
C1_Witness ==
    /\ Len(tasks) = 3
    /\ arrival = <<1, 2, 3>>
    /\ <<Prio(1), Prio(2), Prio(3)>> = <<1, 3, 1>>
    /\ dequeueLog = <<2, 1, 3>>

\* C2: no task is re-inserted more than retry_attempts times, the backoff
\* delays of a task are 2, 4, 8 in this order, and a task is dropped after
\* exactly retry_attempts re-insertions and retry_attempts + 1 executions,
\* all failed, and is then in no queue, thread or retry timer any more.
C2_RetryBound ==
    \A t \in TaskIds :
        /\ Reinserts(t) <= config.retry_attempts
        /\ Len(hist[t].delays) <= 3
        /\ hist[t].delays = SubSeq(<<2, 4, 8>>, 1, Len(hist[t].delays))
        /\ hist[t].dropped =>
               /\ Reinserts(t) = config.retry_attempts
               /\ hist[t].execs = config.retry_attempts + 1
               /\ hist[t].fails = hist[t].execs
               /\ hist[t].delays = <<2, 4, 8>>
               /\ ~InQueue(t) /\ ~InFlight(t) /\ retry[t].pc = "none"

C2_Witness ==
    \E t \in TaskIds : hist[t].dropped /\ hist[t].origin = "enqueue"

\* C3 (as amended): an execution that began with an object at its key makes
\* no upload call at all, and ends in success with zero bytes unless the
\* source is gone ("Local file not found") or head_object itself fails.
C3_NoTransferWhenPresent ==
    \A th \in Execs :
        loc[th].hadObj =>
            /\ loc[th].xfer = 0
            /\ loc[th].session = "none"
            /\ pc[th] \in {"sf_exists", "sf_probe", "handle", "handle_write"}
            /\ loc[th].result.set =>
                   \/ loc[th].result.success /\ loc[th].result.bytes = 0
                   \/ /\ ~loc[th].result.success
                      /\ loc[th].result.error \in
                             {"Local file not found", "head_object"}

\* A second execution after a successful upload reports success, 0 bytes.
C3_Witness ==
    \E th \in Execs :
        /\ pc[th] = "handle"
        /\ loc[th].hadObj
        /\ loc[th].result.success /\ loc[th].result.bytes = 0
        /\ stats.successful_uploads = 1 /\ stats.total_bytes_uploaded > 0

\* C3 as claimed: every execution that began with an object at its key
\* reports success with zero bytes (here even granting that head_object
\* answers).
C3_AlwaysSuccessWhenPresent ==
    \A th \in Execs :
        (pc[th] = "handle" /\ loc[th].hadObj
            /\ loc[th].result.error # "head_object") =>
            /\ loc[th].result.success
            /\ loc[th].result.bytes = 0
            /\ loc[th].xfer = 0

\* C4 (as amended): when a chunked transfer fails after its session was
\* created, abort_multipart_upload has been called exactly once before the
\* failure is returned, the session was not committed, commit is never
\* called after a failed part, and the key holds no object.
C4_AbortBeforeFailure ==
    \A th \in Execs :
        /\ ~loc[th].commitAfterFail
        /\ loc[th].partFailed => loc[th].commits = 0
        /\ (pc[th] = "handle" /\ loc[th].session # "none"
                /\ ~loc[th].result.success) =>
               /\ loc[th].aborts = 1
               /\ loc[th].session # "committed"
               /\ loc[th].committed = <<>>
               /\ Task(th).s3_key \notin s3

\* The third part of a transfer failed and the abort was called.
C4_Witness ==
    \E th \in Execs :
        /\ pc[th] = "handle"
        /\ ~loc[th].result.success
        /\ loc[th].partFailed
        /\ Len(loc[th].parts) = 2
        /\ loc[th].aborts = 1

\* C4 as claimed: the session is aborted when the failure is returned.
C4_SessionAborted ==
    \A th \in Execs :
        (pc[th] = "handle" /\ loc[th].session # "none"
            /\ ~loc[th].result.success) => loc[th].session = "aborted"

\* C5: a task made by force_sync_file is executed once only.
C5_ForcedOnce ==
    \A t \in TaskIds : hist[t].origin = "force" => hist[t].execs <= 1

\* C6: a task that failed with "Local file not found" is dropped: it is in
\* no retry timer, not in the queue and not executed again (stated for
\* the tasks that came in by queue_file_for_sync).
C6_MissingNotRetried ==
    \A t \in TaskIds :
        (hist[t].missing /\ hist[t].origin = "enqueue") =>
            retry[t].pc = "none" /\ ~InQueue(t) /\ ~InFlight(t)

\* C7: the key of every task, queued or forced, is
\* cctv/<site_id>/<camera_id>/<YYYY>/<MM>/<DD>/<filename> with the date of
\* its creation.
C7_KeyLayout ==
    \A t \in TaskIds :
        tasks[t].s3_key =
            <<"cctv", tasks[t].site_id, tasks[t].camera_id,
              Dates[tasks[t].created_at + 1][1],
              Dates[tasks[t].created_at + 1][2],
              Dates[tasks[t].created_at + 1][3],
              <<tasks[t].local_path.stem, tasks[t].local_path.ext>> >>

\* C8: whenever the queue lock is free the queue is in descending priority.
C8_SortedWhenUnlocked ==
    queue_lock = "free" =>
        \A i, j \in 1..Len(sync_queue) :
            i < j => Prio(sync_queue[i]) >= Prio(sync_queue[j])

\* A retried task of higher priority was re-inserted behind a task of lower
\* priority and the sort has put it in front.
C8_Witness ==
    /\ queue_lock = "free"
    /\ Len(sync_queue) = 2
    /\ Prio(sync_queue[1]) > Prio(sync_queue[2])
    /\ Reinserts(sync_queue[1]) >= 1
    /\ Pos(arrival, sync_queue[1]) > Pos(arrival, sync_queue[2])

C10_Parts ==
    \A th \in Execs :
        LET S == loc[th].file_size
            n == Ceil(S, part_size)
            Expected ==
                [i \in 1..n |->
                    [PartNumber |-> i,
                     ETag |-> <<i, IF i < n THEN part_size
                                   ELSE S - (n - 1) * part_size>>]]
        IN  /\ pc[th] = "mp_commit" =>
                   /\ loc[th].parts = Expected
                   /\ loc[th].xfer = n + 1
                   /\ loc[th].commits = 0
            /\ loc[th].session = "committed" =>
                   /\ loc[th].committed = Expected
                   /\ loc[th].xfer = n + 1
                   /\ loc[th].commits = 1

\* 250 MiB in parts of 100 MiB: 3 parts, one commit.
C10_Witness ==
    \E th \in Execs :
        /\ loc[th].session = "committed"
        /\ loc[th].file_size = 250 * 1024 * 1024
        /\ Len(loc[th].committed) = 3
        /\ loc[th].commits = 1

\* C11: the size alone chooses the transfer: a source of at most the
\* threshold (100 MiB, the threshold itself included) is sent by one
\* upload_file call and no multipart session is opened for it; a larger
\* source is sent by the multipart calls only, never by upload_file.
C11_ModeBySize ==
    \A th \in Execs :
        LET small == loc[th].file_size <= multipart_threshold
        IN  /\ pc[th] = "sf_upload" => small
            /\ pc[th] \in {"mp_create", "mp_part", "mp_commit", "mp_abort"}
                   => ~small
            /\ (loc[th].xfer > 0 /\ small) =>
                   /\ loc[th].xfer = 1
                   /\ loc[th].session = "none"
                   /\ loc[th].parts = <<>> /\ loc[th].commits = 0
                   /\ loc[th].result.error \in {"", "upload_file"}
            /\ (loc[th].xfer > 0 /\ ~small) =>
                   /\ loc[th].result.error # "upload_file"
                   /\ \/ loc[th].session # "none"
                      \/ pc[th] = "handle" /\
                            loc[th].result.error = "create_multipart_upload"
                      \/ pc[th] = "handle_write" /\
                            loc[th].result.error = "create_multipart_upload"
                   /\ pc[th] = "sf_record" => loc[th].session = "committed"

\* A source of exactly 100 MiB was uploaded in one piece.
C11_Witness ==
    \E th \in Execs :
        /\ pc[th] = "sf_record"
        /\ loc[th].file_size = multipart_threshold
        /\ loc[th].xfer = 1
        /\ loc[th].session = "none"

\* The budget in bytes per second, as a fraction.
Budget == <<MaxBytesPerSecond(config.max_bandwidth_mbps), 1>>

\* min(2 * usage / max_bytes_per_second, 10), written out.
TwiceRatioCapped(usage) ==
    LET r == Frac(2 * usage[1], usage[2] * Budget[1])
    IN  IF FracLess(r, <<10, 1>>) THEN r ELSE <<10, 1>>

C13_DelayZeroOrAboveTwo ==
    \A w \in Workers :
        loc[w].delayed =>
            \/ loc[w].delay = <<0, 1>>
            \/ /\ FracLess(<<2, 1>>, loc[w].delay)
               /\ FracLeq(loc[w].delay, <<10, 1>>)

\* The samples of h from index i on that are newer than cutoff.
RECURSIVE BytesNewer(_, _, _)
BytesNewer(h, cutoff, i) ==
    IF i > Len(h) THEN 0
    ELSE (IF h[i][1] > cutoff THEN h[i][2] ELSE 0) + BytesNewer(h, cutoff, i + 1)

\* C14 (as amended): when record_upload returns, the history holds no
\* sample older than the window counted from that record (so none is more
\* than 60 s older than the last one), and the usage is computed over
\* exactly the samples of the history that are newer than now - 60 s.
C14_PrunedAtRecord ==
    LET h == upload_history
        inWin == {i \in 1..Len(h) : h[i][1] > now - history_window}
        first == CHOOSE i \in inWin : \A j \in inWin : i <= j
    IN  /\ \A i \in 1..Len(h) : h[i][1] > h[Len(h)][1] - history_window
        /\ GetCurrentBandwidthUsage(h, now) =
               IF inWin = {} THEN <<0, 1>>
               ELSE Frac(BytesNewer(h, now - history_window, 1),
                         Max(now - h[first][1], 1))

\* Two uploads were recorded and the second record pruned the first.
C14_Witness ==
    /\ stats.total_bytes_uploaded = 12 * 1024 * 1024
    /\ Len(upload_history) = 1

\* C14 as claimed: the history never holds a sample older than the window.
C14_NoSampleOlderThanWindow ==
    \A i \in 1..Len(upload_history) :
        upload_history[i][1] > now - history_window

\* C17: a scheduler iteration that finds should_throttle true goes to the
\* delay and the sleep and back to the loop head without touching the queue
\* and without a task; and a task leaves the queue only into an execution
\* (every insertion of a task is matched by an execution or the task is
\* still queued).
C17_ThrottledNoDequeue ==
    /\ [](\A t \in TaskIds :
             hist[t].origin = "enqueue" =>
                 hist[t].inserts =
                     hist[t].execs + (IF InQueue(t) THEN 1 ELSE 0))
    /\ [][\A w \in Workers :
             /\ (pc[w] = "throttle" /\ ShouldThrottle(upload_history, now)
                     /\ pc'[w] # pc[w]) =>
                    /\ pc'[w] = "delay_test"
                    /\ sync_queue' = sync_queue
                    /\ cur'[w] = 0
             /\ (pc[w] \in {"delay_test", "delay_compute", "sleep_throttle"}
                     /\ pc'[w] # pc[w]) =>
                    /\ pc'[w] \in {"delay_compute", "sleep_throttle", "loop"}
                    /\ sync_queue' = sync_queue
                    /\ cur'[w] = 0]_vars

\* The loop sleeps on the throttle while a task waits in the queue.
C17_Witness ==
    \E w \in Workers :
        /\ pc[w] = "sleep_throttle"
        /\ queue_lock = "free"
        /\ sync_queue # <<>>

\* C15: a retry thread that has put its task back leaves it in the queue
\* with the priority it was created with and a retry_count equal to the
\* number of its failures, behind every queued task of the same or a
\* higher priority and in front of every one of a lower priority, the other
\* tasks in the order they had.
C15_RetryReinsertion ==
    [][\A t \in TaskIds :
          /\ tasks'[t].priority = tasks[t].priority
          /\ (retry[t].pc = "locked" /\ retry'[t].pc = "none") =>
                 /\ \E i \in 1..Len(sync_queue') :
                        /\ sync_queue'[i] = t
                        /\ \A j \in 1..Len(sync_queue') :
                               /\ j < i => Prio(sync_queue'[j]) >= Prio(t)
                               /\ j > i => Prio(sync_queue'[j]) < Prio(t)
                 /\ SelectSeq(sync_queue', LAMBDA x : x # t) =
                        SubSeq(sync_queue, 1, Len(sync_queue) - 1)
                 /\ tasks'[t].retry_count = hist[t].fails
                 /\ tasks'[t].retry_count >= 1]_vars

\* A retried task sits behind a task of its own priority that was enqueued
\* while it waited for its backoff.
C15_Witness ==
    /\ queue_lock = "free"
    /\ \E i, j \in 1..Len(sync_queue) :
           /\ i < j
           /\ Prio(sync_queue[i]) = Prio(sync_queue[j])
           /\ sync_queue[i] > sync_queue[j]
           /\ Reinserts(sync_queue[j]) >= 1
           /\ tasks[sync_queue[j]].retry_count = 1

\* C16: the key of a task never changes, and all the executions of a task,
\* the first and the retries, give the destination this one key.
C16_KeyUnchanged ==
    /\ [](\A t \in TaskIds : hist[t].keys \subseteq {tasks[t].s3_key})
    /\ [][\A t \in TaskIds : tasks'[t].s3_key = tasks[t].s3_key]_vars

\* A task is probed in its third execution, after two failed uploads.
C16_Witness ==
    \E th \in Execs :
        /\ cur[th] # 0
        /\ pc[th] \in {"sf_upload", "handle"}
        /\ hist[cur[th]].execs = 3
        /\ hist[cur[th]].origin = "enqueue"
        /\ hist[cur[th]].keys = {Task(th).s3_key}
        /\ loc[th].xfer = 0

\* C19: force_sync_file leaves the queue alone: a task it made is never
\* inserted into sync_queue, whatever the outcome of its transfer.
C19_ForcedNeverQueued ==
    \A t \in TaskIds :
        hist[t].origin = "force" => hist[t].inserts = 0 /\ ~InQueue(t)

\* The task was failed by an exception out of _handle_sync_result: its
\* retry_count was raised and no retry thread got its delay.
Raised(t) == tasks[t].retry_count > Len(hist[t].delays)

\* C18: a scheduler loop ends only at its loop test with the running flag
\* cleared, and the flag is cleared by stop() alone (no thread moves in that
\* step); after a failed transfer it is back at the loop head, after an
\* exception in the iteration it sleeps and is back at the loop head, and
\* with the flag set it goes on with the next iteration.
C18_LoopEndsOnlyOnStop ==
    [][/\ (running /\ ~running') => pc' = pc
       /\ \A w \in Workers :
             /\ (pc[w] # "dead" /\ pc'[w] = "dead") =>
                    pc[w] = "loop" /\ ~running
             /\ (pc[w] = "handle_write" /\ pc'[w] # pc[w]) =>
                    pc'[w] \in {"loop", "sleep_error"}
             /\ (pc[w] = "sleep_error" /\ pc'[w] # pc[w]) => pc'[w] = "loop"
             /\ (pc[w] = "loop" /\ running /\ pc'[w] # pc[w]) =>
                    pc'[w] = "throttle"]_vars

\* The only loop there is executes the second task after the exception that
\* ended the iteration of the first.
C18_Witness ==
    \E w \in Workers :
        /\ \A v \in Workers \ {w} : pc[v] = "dead"
        /\ pc[w] = "sf_exists"
        /\ Len(tasks) = 2
        /\ dequeueLog = <<1, 2>>
        /\ cur[w] = 2
        /\ Raised(1)
        /\ stats.failed_uploads = 1

\* C20: at most one scheduler-loop thread is alive.
C20_OneWorker == Cardinality({w \in Workers : pc[w] # "dead"}) <= 1

\* C21: the queue lock is held only by the producer between its append and
\* its sort or by one retry thread between its append and its sort; a
\* scheduler loop that sleeps (idle poll, throttle, error cooldown) or
\* transfers or handles a result does not hold it, and a retry thread in
\* its backoff sleep does not hold it.
C21_NoLockWhileBlocked ==
    /\ queue_lock \in {"free", "producer", "retry"}
    /\ queue_lock = "producer" => prod.pc = "locked"
    /\ queue_lock = "retry" =>
           Cardinality({t \in TaskIds : retry[t].pc = "locked"}) = 1
    /\ \A w \in Workers :
           pc[w] \notin {"dead", "loop", "throttle", "dequeue"} =>
               queue_lock # w
    /\ \A t \in TaskIds :
           retry[t].pc = "sleep" =>
               (queue_lock = "retry" =>
                    \E u \in TaskIds \ {t} : retry[u].pc = "locked")

\* The producer is inside its locked block while the loop transfers one
\* task and the retry thread of another sleeps.
C21_Witness ==
    /\ queue_lock = "producer"
    /\ \E w \in Workers : pc[w] = "sf_upload"
    /\ \E t \in TaskIds : retry[t].pc = "sleep"

\* C22: the step that hands a failed task to its retry thread brings the
\* handling thread back to its caller and touches neither the queue nor its
\* lock; the retry thread takes the lock only out of its sleep, appending
\* its task in that step, and once for every retry that was scheduled.
C22_RetryDoesNotBlock ==
    /\ [](\A t \in TaskIds :
             Reinserts(t) + (IF retry[t].pc = "sleep" THEN 1 ELSE 0)
                 = Len(hist[t].delays))
    /\ [][\A t \in TaskIds :
             /\ (retry[t].pc = "none" /\ retry'[t].pc # "none") =>
                    /\ retry'[t].pc = "sleep"
                    /\ sync_queue' = sync_queue
                    /\ queue_lock' = queue_lock
                    /\ \E th \in Execs :
                           /\ cur[th] = t /\ cur'[th] = 0
                           /\ pc[th] = "handle_write"
                           /\ pc'[th] = AfterHandle(th)
             /\ (retry[t].pc # "locked" /\ retry'[t].pc = "locked") =>
                    /\ retry[t].pc = "sleep"
                    /\ queue_lock = "free" /\ queue_lock' = "retry"
                    /\ sync_queue' = Append(sync_queue, t)]_vars

\* The first task waits in its retry thread's sleep while the loop, which
\* dequeued the second right after it, executes the second.
C22_Witness ==
    \E w \in Workers :
        /\ Len(tasks) >= 2
        /\ dequeueLog = <<1, 2>>
        /\ retry[1].pc = "sleep"
        /\ cur[w] = 2
        /\ pc[w] = "sf_upload"

\* C23: the marker of a source path exists only when a task of exactly this
\* source path has succeeded.
C23_MarkerPerSource ==
    \A p \in Paths :
        SyncedMarker(p) \in files =>
            \E t \in TaskIds : tasks[t].local_path = p /\ hist[t].done

\* C24: the task queue_file_for_sync has just appended has the priority the
\* caller passed, or, with the motion hint, 2 when the caller passed less
\* than 2: with the hint 1 becomes 2 and 3 stays 3.
C24_MotionPriority ==
    prod.pc = "locked" =>
        LET task == tasks[Len(tasks)]
        IN  /\ sync_queue[Len(sync_queue)] = Len(tasks)
            /\ ~prod.has_motion => task.priority = prod.priority
            /\ (prod.has_motion /\ prod.priority < 2) => task.priority = 2
            /\ (prod.has_motion /\ prod.priority >= 2) =>
                   task.priority = prod.priority

\* A critical task with the motion hint and a normal one with it.
C24_Witness ==
    /\ prod.pc = "locked"
    /\ prod.has_motion /\ prod.priority = 1
    /\ Len(tasks) = 2
    /\ tasks[1].priority = 3 /\ tasks[2].priority = 2

\* C25: when an execution returns its result, the bytes it has passed to
\* record_upload are the bytes_uploaded of the result: the file size for an
\* upload, 0 for an object already there and for a failure.
C25_RecordedIsTransferred ==
    \A th \in Execs :
        pc[th] = "handle" => loc[th].recorded = loc[th].result.bytes

\* C26: an execution on the thread of a force_sync_file caller passes
\* nothing to record_upload.
C26_ForceRecordsNothing ==
    \A f \in Forcers : loc[f].recorded = 0

\* The delays min(2^n, 300) for n = 1, 2, ..., written out.
ExpectedDelays == <<2, 4, 8, 16, 32, 64, 128, 256, 300, 300, 300, 300>>

\* C27: the delay of a pending retry timer is min(2^retry_count, 300) of the
\* task's retry_count as incremented, and whatever retry_attempts is, the
\* successive delays of a task are 2, 4, 8, ..., 256, 300, 300: they start
\* at 2, never decrease and never exceed 300.
C27_BackoffDelays ==
    \A t \in TaskIds :
        LET d == hist[t].delays
        IN  /\ Len(d) = tasks[t].retry_count
            /\ d = SubSeq(ExpectedDelays, 1, Len(d))
            /\ Len(d) >= 1 => d[1] = 2
            /\ \A i \in 1..Len(d) : d[i] <= 300
            /\ \A i \in 1..(Len(d) - 1) : d[i] <= d[i + 1]
            /\ retry[t].pc = "sleep" =>
                   retry[t].delay = ExpectedDelays[tasks[t].retry_count]

C27_Witness ==
    \E t \in TaskIds :
        /\ Len(hist[t].delays) = 10
        /\ hist[t].delays[8] = 256
        /\ hist[t].delays[9] = 300
        /\ hist[t].delays[10] = 300
        /\ retry[t].pc = "sleep"

\* C28 (as amended): retry_count is 0 until the first failure and counts the
\* failed attempts that were followed by a retry: it is the number of
\* failed attempts up to retry_attempts, and stays at retry_attempts at the
\* failure after which the task is dropped.
C28_RetryCountIsRetries ==
    \A t \in TaskIds :
        /\ tasks[t].retry_count = Min(hist[t].fails, config.retry_attempts)
        /\ hist[t].dropped =>
               /\ hist[t].fails = config.retry_attempts + 1
               /\ tasks[t].retry_count = config.retry_attempts

C28_Witness ==
    \E t \in TaskIds :
        /\ hist[t].dropped
        /\ config.retry_attempts = 3
        /\ hist[t].fails = 4
        /\ tasks[t].retry_count = 3

\* C28 as stated: retry_count is the number of failed attempts at every
\* point, the failure that drops the task included.
C28_RetryCountIsFailures ==
    \A t \in TaskIds : tasks[t].retry_count = hist[t].fails

\* C29: of the executions in progress on one destination key, at most one
\* has made an upload call.
C29_OneTransferPerKey ==
    \A a, b \in Execs :
        (/\ a # b
         /\ cur[a] # 0 /\ cur[b] # 0
         /\ tasks[cur[a]].s3_key = tasks[cur[b]].s3_key)
        => ~(loc[a].xfer > 0 /\ loc[b].xfer > 0)

\* The number of places task t is in: its entries in the queue, the threads
\* executing it, its pending retry timer, and the two ends of its life.
Places(t) ==
    Cardinality({i \in 1..Len(sync_queue) : sync_queue[i] = t})
    + Cardinality({th \in Execs : cur[th] = t})
    + (IF retry[t].pc = "sleep" THEN 1 ELSE 0)
    + (IF hist[t].done THEN 1 ELSE 0)
    + (IF hist[t].dropped THEN 1 ELSE 0)

Beyond ==
    \E i \in 1..Len(upload_history) :
        \A j \in Instants : j < upload_history[i][1] + history_window

Terminal(t) == t \in TaskIds /\ (hist[t].done \/ hist[t].dropped)

Throttled(w) ==
    pc[w] \in {"delay_test", "delay_compute", "sleep_throttle"}

C32_TotalIsSum ==
    query.pc = "returned" =>
        query.total_uploads = query.successful_uploads + query.failed_uploads

\* The positions in which the query is inside "with self.queue_lock".
QueryInQueueLock ==
    query.pc \in {"usage_lock", "usage", "throttle_lock", "throttle", "unlock"}

\* C33: the monitor lock is held only by the query inside one monitor call
\* or by a thread inside record_upload, none of which asks for the queue
\* lock before it releases; the query is the only thread that holds both
\* locks; and the holder of a lock can always take its next step, unless it
\* is the query waiting for the monitor lock, whose holder then can.
C33_NoDeadlock ==
    /\ monitor_lock \in {"free", "query"} \cup Execs
    /\ queue_lock \in {"free", "producer", "retry", "query"}
    /\ queue_lock = "query" <=> QueryInQueueLock
    /\ monitor_lock = "query" <=> query.pc \in {"usage", "throttle"}
    /\ \A th \in Execs : monitor_lock = th => pc[th] = "sf_record"
    /\ queue_lock = "producer" => ENABLED QueueFileSort
    /\ queue_lock = "retry" => ENABLED RetryThread
    /\ monitor_lock = "query" => ENABLED QueryMonitorUnlock
    /\ \A th \in Execs : monitor_lock = th => ENABLED SfRecord(th)
    /\ queue_lock = "query" =>
           \/ ENABLED GetStatistics
           \/ \E th \in Execs : monitor_lock = th /\ ENABLED SfRecord(th)

\* The query holds the queue lock and waits for the monitor lock, which a
\* force_sync_file caller holds inside record_upload, while the scheduler
\* loop waits for the queue lock and a retry thread sleeps.
C33_Witness ==
    /\ queue_lock = "query"
    /\ query.pc = "usage_lock"
    /\ \E f \in Forcers : monitor_lock = f
    /\ \E w \in Workers : pc[w] = "dequeue"
    /\ \E t \in TaskIds : retry[t].pc = "sleep"

\* C34: the retry_count of every task, enqueued or forced, is between 0 and
\* retry_attempts in every state.
C34_RetryCountBounded ==
    \A t \in TaskIds :
        /\ 0 <= tasks[t].retry_count
        /\ tasks[t].retry_count <= config.retry_attempts

\* A forced task and an enqueued task have both been dropped, each with
\* retry_count at the maximum.
C34_Witness ==
    \E t, u \in TaskIds :
        /\ hist[t].origin = "force" /\ hist[u].origin = "enqueue"
        /\ hist[t].dropped /\ hist[u].dropped
        /\ tasks[t].retry_count = config.retry_attempts
        /\ tasks[u].retry_count = config.retry_attempts

AllLoopsEnded == \A w \in Workers : pc[w] = "dead"

\* C35: once running is cleared, the scheduler loop ends unless the service
\* is started again; while the flag is cleared the loop has dequeued at most
\* one task since stop(); and once the loop has ended, nothing is taken
\* from the queue or executed until a start, whatever the retry threads
\* and the producer insert.
C35_StopEndsLoop ==
    /\ \A w \in MainWorkers :
           (~running /\ pc[w] # "dead") ~> (pc[w] = "dead" \/ running)
    /\ [](~running => \A w \in Workers : stopDequeues[w] <= 1)
    /\ [][(~running /\ ~running' /\ AllLoopsEnded) =>
              /\ pc' = pc /\ cur' = cur
              /\ Len(sync_queue') >= Len(sync_queue)
              /\ \A i \in 1..Len(sync_queue) :
                     \E j \in 1..Len(sync_queue') :
                         sync_queue'[j] = sync_queue[i]
              /\ \A t \in TaskIds : hist'[t].execs = hist[t].execs]_vars

\* The service is stopped and its loop has ended after one more dequeue;
\* a retry thread has since put its task back, and the task stays queued.
C35_Witness ==
    /\ ~running /\ AllLoopsEnded
    /\ stopDequeues["w1"] = 1
    /\ queue_lock = "free"
    /\ \E t \in TaskIds :
           /\ InQueue(t)
           /\ tasks[t].retry_count = 1
           /\ hist[t].execs = 1
           /\ retry[t].pc = "none"

====
